---- MODULE Spec2Model ----
(***************************************************************************)
(* A model of the data sets and the training entry point of the            *)
(* repository: the split arithmetic and indexing of DepthOfField and       *)
(* HSVFashionMNIST, the vicinal sampling of CcGANDatasetWrapper, the       *)
(* control flow of main/train.py and main/eval.py, the scores of           *)
(* HSVFashionMNIST.performance and the pairwise shuffle.                   *)
(*                                                                         *)
(* Each component has its own specification (SpecDof, SpecHsv,             *)
(* SpecHsvLabels, SpecCc, SpecTrain, SpecPerf, SpecShuf); a specification  *)
(* leaves the variables of the other components at their idle values.      *)
(*                                                                         *)
(* Floating point: the split sizes are computed by the code in IEEE        *)
(* doubles (np.floor(0.55 * n), int(n * 0.8)).  For every n up to 200000   *)
(* the double results equal the exact floor and ceiling of 55n/100,        *)
(* 15n/100 and 8n/10, so integer arithmetic models them exactly here.      *)
(* Labels and hues are modelled on an integer grid.  The scores of         *)
(* performance() are kept exact, as coef * sqrt(root) / 18; in floating    *)
(* point their sums hold up to the rounding of the summation.              *)
(***************************************************************************)
EXTENDS Integers, Sequences, FiniteSets, TLC

VARIABLES
    dof,            \* the DepthOfField object (data/dof.py)
    dof_ret,        \* outcome of the last call on it
    dof_mode_set,   \* whether set_mode has been called on it since construction
    upstream,       \* sizes of the upstream FashionMNIST train and test splits
    hsv,            \* the HSVFashionMNIST object (data/fashion_mnist.py)
    hsv_ret,        \* outcome of the last call on it
    cc_ds,          \* the data set wrapped by the CcGANDatasetWrapper
    cc,             \* the CcGANDatasetWrapper object (data/ccgan_wrapper.py)
    cc_ret,         \* outcome of the last call on it
    env,            \* what train() finds: the data set size and the training config
    run,            \* the train() call in progress (main/train.py)
    disk,           \* per checkpoint directory, what has been persisted in it
    runs,           \* the number of train() and eval() calls started
    perf_in,        \* the batch given to performance()
    perf_ret,       \* per reduction, outcome of the last call of performance()
    shuf_in,        \* the sequences given to pairwise_deterministic_shuffle
    shuf_ret,       \* outcome of the last call of it
    eval_ret        \* outcome of the last call of eval() (main/eval.py)

dofVars == <<dof, dof_ret, dof_mode_set>>
hsvVars == <<upstream, hsv, hsv_ret>>
ccVars == <<cc_ds, cc, cc_ret>>
trainVars == <<env, run, disk, runs>>
perfVars == <<perf_in, perf_ret>>
shufVars == <<shuf_in, shuf_ret>>
evalVars == <<eval_ret>>
vars == <<dofVars, hsvVars, ccVars, trainVars, perfVars, shufVars, evalVars>>
notDof == <<hsvVars, ccVars, trainVars, perfVars, shufVars, evalVars>>
notHsv == <<dofVars, ccVars, trainVars, perfVars, shufVars, evalVars>>
notCc == <<dofVars, hsvVars, trainVars, perfVars, shufVars, evalVars>>
notTrain == <<dofVars, hsvVars, ccVars, perfVars, shufVars, evalVars>>
notPerf == <<dofVars, hsvVars, ccVars, trainVars, shufVars, evalVars>>
notShuf == <<dofVars, hsvVars, ccVars, trainVars, perfVars, evalVars>>
notTrainEval == <<dofVars, hsvVars, ccVars, perfVars, shufVars>>

\* ------------------------------------------------------------------ bounds
MaxCorpus == 40
MaxUp == 3          \* largest upstream split
MaxClusters == 2    \* largest n_clusters
MaxNoise == 1       \* largest Gaussian draw, in grid units
MaxBatch == 3       \* largest batch size
MaxWrapped == 2     \* largest split of the wrapped data set
MaxLabel == 2       \* largest observed label, in grid units
MaxSigma == 1       \* largest sigma, and largest Gaussian draw per unit of sigma
MaxHyper == 1       \* largest vicinity half-width
MaxRuns == 2        \* train() and eval() calls in a row on the same checkpoint root
MaxEpochs == 2      \* largest --epochs
MaxTrainUp == 4     \* largest upstream train split of the training data set
MaxTrainBatch == 2  \* largest --batch_size
MaxFreq == 2        \* largest checkpoint_frequency of the training config
MaxResume == 1      \* largest --resume_from
MaxWorkers == 1     \* largest --n_workers
MaxPerfBatch == 2   \* largest batch scored by performance()
MaxTarget == 1      \* largest target hue given to performance(), in sixths
MaxSeqs == 3        \* most sequences shuffled together
MaxSeqLen == 2      \* longest sequence shuffled
MaxElem == 1        \* largest element of a shuffled sequence

\* The hue 1.0 in grid units: hues and labels are multiples of 1/HueOne.
HueOne == 4

\* ------------------------------------------------------------ enumerations
\* util/enums.py: DataSplit
DataSplit == {"TRAIN", "VAL", "TEST", "HOLDOUT"}

\* The outcome of a call: the operation, how it ended ("value" or the error
\* raised), the value it computed and the argument it was given.
NoRet == [op |-> "none", kind |-> "none", value |-> 0, arg |-> 0]
Ret(op, kind, value) == [op |-> op, kind |-> kind, value |-> value, arg |-> 0]

\* -------------------------------------------------------- AbstractDataset
\* AbstractDataset.__init__: the mode starts as TRAIN, never as None.
AbstractDataset_init_mode == "TRAIN"

\* AbstractDataset.__len__ / __getitem__: the guard on an unset mode, then the
\* subclass hook.  `inner` is the outcome of self._len() / self._getitem(index).
AbstractDataset_guarded(op, mode, inner) ==
    IF mode = "None"
    THEN Ret(op, "ValueError_set_mode", 0)
    ELSE inner

\* The methods AbstractDataset declares with @abstractmethod
AbstractDataset_abstractmethods ==
    {"random_targets", "test_model", "_len", "_getitem", "data_shape",
     "performance", "label_domain"}

\* Calling a class derived from AbstractDataset (an ABC).  methods are the
\* methods the body of the class defines; extra are those added by the
\* subclass being called, {} when the class itself is called.  While a method
\* declared abstract is overridden by neither, the call raises TypeError
\* before __init__ runs and there is no object; otherwise __init__ runs and
\* obj is the object it leaves.
Instantiate(methods, extra, obj) ==
    LET missing == AbstractDataset_abstractmethods \ (methods \cup extra)
    IN  IF missing = {}
        THEN obj
        ELSE [error |-> "TypeError_abstract", missing |-> missing]

\* Whether a constructor call returned an object
IsObject(o) == "missing" \notin DOMAIN o

\* The classes a constructor is called on: the class as written, and a
\* subclass that adds exactly the abstract methods the class leaves open.
Completions(methods) == {{}, AbstractDataset_abstractmethods \ methods}

\* ----------------------------------------------------------- DepthOfField
\* The methods the body of class DepthOfField defines: test_model is not
\* among them.
DepthOfField_methods ==
    {"__init__", "preprocess", "random_targets", "_get_idx_offset", "_len",
     "_getitem", "data_shape", "performance", "label_domain",
     "has_performance_metrics"}

Floor100(x) == x \div 100
Ceil100(x) == (x + 99) \div 100

\* A slip a port could make: the holdout split rounded down like the others.
DepthOfField_init_floor_holdout(extra, num_images) ==
    Instantiate(DepthOfField_methods, extra,
        [num_images  |-> num_images,
         len_train   |-> Floor100(55 * num_images),
         len_val     |-> Floor100(15 * num_images),
         len_test    |-> Floor100(15 * num_images),
         len_holdout |-> Floor100(15 * num_images),
         mode        |-> AbstractDataset_init_mode])

\* DepthOfField(...) or a subclass of it called on a corpus of num_images
\* labelled images: the TypeError of the abstract class, or the object
\* DepthOfField.__init__ leaves.
DepthOfField_init(extra, num_images) ==
    Instantiate(DepthOfField_methods, extra,
        [num_images  |-> num_images,
         len_train   |-> Floor100(55 * num_images),
         len_val     |-> Floor100(15 * num_images),
         len_test    |-> Floor100(15 * num_images),
         len_holdout |-> Ceil100(15 * num_images),
         mode        |-> AbstractDataset_init_mode])

\* A slip a port could make: the TEST offset without the validation split.
DepthOfField_get_idx_offset_no_val(self) ==
    CASE self.mode = "TRAIN"   -> 0
      [] self.mode = "VAL"     -> self.len_train
      [] self.mode = "TEST"    -> self.len_train
      [] self.mode = "HOLDOUT" -> self.len_train + self.len_val + self.len_test

\* DepthOfField._get_idx_offset
DepthOfField_get_idx_offset(self) ==
    CASE self.mode = "TRAIN"   -> 0
      [] self.mode = "VAL"     -> self.len_train
      [] self.mode = "TEST"    -> self.len_train + self.len_val
      [] self.mode = "HOLDOUT" -> self.len_train + self.len_val + self.len_test

\* DepthOfField._len
DepthOfField_len(self) ==
    CASE self.mode = "TRAIN"   -> self.len_train
      [] self.mode = "VAL"     -> self.len_val
      [] self.mode = "TEST"    -> self.len_test
      [] self.mode = "HOLDOUT" -> self.len_holdout

\* DepthOfField._getitem: the position of the corpus that is read, or the
\* IndexError of a list index past the end of self.images.
DepthOfField_getitem(self, index) ==
    LET pos == index + DepthOfField_get_idx_offset(self)
    IN  IF pos < self.num_images
        THEN Ret("__getitem__", "value", pos)
        ELSE Ret("__getitem__", "IndexError", pos)

DofInit ==
    /\ \E extra \in Completions(DepthOfField_methods), n \in 0..MaxCorpus :
          dof = DepthOfField_init(extra, n)
    /\ dof_ret = NoRet
    /\ dof_mode_set = FALSE

\* No DepthOfField object: the class as written was called, or none was.
DofIdle ==
    /\ dof = DepthOfField_init({}, 0)
    /\ dof_ret = NoRet
    /\ dof_mode_set = FALSE

\* AbstractDataset.set_mode on the DepthOfField object
DofSetMode ==
    \E m \in DataSplit :
        /\ IsObject(dof)
        /\ dof' = [dof EXCEPT !.mode = m]
        /\ dof_mode_set' = TRUE
        /\ dof_ret' = Ret("set_mode", "value", 0)
        /\ UNCHANGED notDof

\* len(dataset): AbstractDataset.__len__
DofLen ==
    /\ IsObject(dof)
    /\ dof_ret' = AbstractDataset_guarded("__len__", dof.mode,
                       Ret("__len__", "value", DepthOfField_len(dof)))
    /\ UNCHANGED <<dof, dof_mode_set, notDof>>

\* dataset[index]: AbstractDataset.__getitem__
DofGetitem ==
    \E index \in 0..MaxCorpus :
        /\ IsObject(dof)
        /\ dof_ret' = [AbstractDataset_guarded("__getitem__", dof.mode,
                           DepthOfField_getitem(dof, index)) EXCEPT !.arg = index]
        /\ UNCHANGED <<dof, dof_mode_set, notDof>>

NextDof == DofSetMode \/ DofLen \/ DofGetitem

\* -------------------------------------------------------- HSVFashionMNIST
Min(a, b) == IF a < b THEN a ELSE b

\* int(total_samples * 0.8)
Int08(total_samples) == (8 * total_samples) \div 10

\* np.linspace(min_hue, max_hue, num=n_clusters, endpoint=True), on the grid
Linspace(min_hue, max_hue, n_clusters) ==
    [j \in 1..n_clusters |->
        IF n_clusters = 1 THEN min_hue
        ELSE min_hue + ((j - 1) * (max_hue - min_hue)) \div (n_clusters - 1)]

\* np.repeat(ys, r): every element r times, in order
Repeat(ys, r) == [i \in 1..(Len(ys) * r) |-> ys[((i - 1) \div r) + 1]]

\* The values np.random.uniform(min_hue, max_hue) can return, on the grid
UniformDraws(min_hue, max_hue) ==
    IF min_hue < max_hue THEN min_hue..(max_hue - 1) ELSE {min_hue}

\* The values a Gaussian draw can take, on the grid (cut at MaxNoise)
NormalDraws == (-MaxNoise)..MaxNoise

\* The hue and label arrays of HSVFashionMNIST.__init__ (lines 72-94).
\* u: the uniform draws, g: the Gaussian draws, perm: the permutation
\* np.random.shuffle applies.  n_clusters = 0 stands for None.
HSV_labels(total_samples, n_clusters, noisy_labels, min_hue, max_hue, u, g, perm) ==
    IF n_clusters = 0
    THEN LET hues0 == [i \in 1..total_samples |-> u[i]]
             \* self.ys = self.hues binds the same array: += and %= change both
             noisy == [i \in 1..total_samples |-> (hues0[i] + g[i]) % HueOne]
         IN  IF noisy_labels
             THEN [ys |-> noisy, hues |-> noisy]
             ELSE [ys |-> hues0, hues |-> hues0]
    ELSE LET lin == Linspace(min_hue, max_hue, n_clusters)
             rep == Repeat(lin, total_samples \div n_clusters)
             ys == [i \in 1..Len(rep) |-> rep[perm[i]]]
             \* scale=(max_hue - min_hue) / (n_clusters * 10): no noise when
             \* the domain is a single point
             noise(i) == IF max_hue = min_hue THEN 0 ELSE g[i]
         IN  IF noisy_labels
             THEN [ys |-> ys,
                   hues |-> [i \in 1..Len(ys) |-> (ys[i] + noise(i)) % HueOne]]
             ELSE [ys |-> ys, hues |-> ys]

\* The length of self.ys
HSV_ys_len(total_samples, n_clusters) ==
    IF n_clusters = 0 THEN total_samples
    ELSE n_clusters * (total_samples \div n_clusters)

\* self.len_val = total_samples - self.len_train
HSV_len_val(total_samples) == total_samples - Int08(total_samples)

\* HSVFashionMNIST.__init__.  The upstream constructor loads the train split
\* when train is true and the test split otherwise; total_samples is the
\* size of the split that was loaded.  len_train and len_val exist only when
\* train is true (has_split).
HSVFashionMNIST_init(up, train, n_clusters, noisy_labels, fixed_labels, min_hue, max_hue, u, g, perm) ==
    LET total_samples == IF train THEN up.train ELSE up.test
        lab == HSV_labels(total_samples, n_clusters, noisy_labels,
                          min_hue, max_hue, u, g, perm)
    IN  [train         |-> train,
         split         |-> IF train THEN "train" ELSE "test",
         total_samples |-> total_samples,
         mode          |-> IF train THEN "TRAIN" ELSE "TEST",
         has_split     |-> train,
         len_train     |-> IF train THEN Int08(total_samples) ELSE 0,
         len_val       |-> IF train THEN HSV_len_val(total_samples) ELSE 0,
         n_clusters    |-> n_clusters,
         noisy_labels  |-> noisy_labels,
         fixed_labels  |-> fixed_labels,
         min_hue       |-> min_hue,
         max_hue       |-> max_hue,
         ys            |-> lab.ys,
         hues          |-> lab.hues]

\* HSVFashionMNIST.__len__ (it overrides AbstractDataset.__len__: no guard).
\* HOLDOUT falls through every branch and returns None, which len() rejects.
HSVFashionMNIST_len(self) ==
    CASE self.mode = "TRAIN" ->
            IF self.has_split THEN Ret("__len__", "value", self.len_train)
            ELSE Ret("__len__", "AttributeError", 0)
      [] self.mode = "VAL" ->
            IF self.has_split THEN Ret("__len__", "value", self.len_val)
            ELSE Ret("__len__", "AttributeError", 0)
      [] self.mode = "TEST" -> Ret("__len__", "value", self.total_samples)
      [] OTHER -> Ret("__len__", "TypeError", 0)

\* A slip a port could make: the validation offset left out.
HSV_index_no_offset(self, index) == index

\* Lines 104-106: the index handed to the upstream __getitem__
HSV_index(self, index) ==
    IF self.mode = "VAL" THEN index + self.len_train ELSE index

\* HSVFashionMNIST.__getitem__: the upstream sample that is read (value, 0-based,
\* of the split the constructor loaded) and how the call ends.
HSVFashionMNIST_getitem(self, index) ==
    LET idx == HSV_index(self, index)
    IN  IF self.mode = "VAL" /\ ~self.has_split
        THEN Ret("__getitem__", "AttributeError", index)
        ELSE IF idx >= self.total_samples
        THEN Ret("__getitem__", "IndexError_data", idx)
        ELSE IF self.fixed_labels
        THEN IF idx >= Len(self.ys)
             THEN Ret("__getitem__", "IndexError_ys", idx)
             ELSE Ret("__getitem__", "value", idx)
        ELSE IF self.n_clusters # 0
        THEN IF Len(self.ys) = 0
             THEN Ret("__getitem__", "ValueError_randint", idx)
             ELSE Ret("__getitem__", "value", idx)
        ELSE IF self.noisy_labels
        THEN Ret("__getitem__", "ValueError_noisy", idx)
        ELSE Ret("__getitem__", "value", idx)

\* The seven fields of HSVFashionMNISTPerformance
PerformanceFields ==
    {"hsv_mae_h", "hsv_mae_s", "hsv_mae_v", "hsv_l1", "hsv_l2", "rgb_l1", "rgb_l2"}

n_attempts == 100

\* t.squeeze().tolist() of a tensor with b per-sample scores: a list of b
\* numbers when b > 1, a bare number when b = 1.
SqueezeToList(b) == IF b = 1 THEN [is_list |-> FALSE, n |-> 1]
                    ELSE [is_list |-> TRUE, n |-> b]

\* The scores one batch of b samples adds to a field over its attempts
AttemptsScores(b) == n_attempts * b

\* The loop of HSVFashionMNIST.test_model over the batches of a sequential,
\* non-shuffled loader (the last batch is kept): the number of scores each
\* field holds and how the loop ends.  DataclassExtensions.extend appends the
\* elements of a list; a bare number is not iterable.
RECURSIVE TestModelLoop(_, _, _, _)
TestModelLoop(self, batch_size, first, count) ==
    IF first >= self.total_samples
    THEN Ret("test_model", "value", [f \in PerformanceFields |-> count])
    ELSE LET b == Min(batch_size, self.total_samples - first)
             bad == {i \in first..(first + b - 1) :
                        HSVFashionMNIST_getitem(self, i).kind # "value"}
         IN  IF bad # {}
             THEN Ret("test_model",
                      HSVFashionMNIST_getitem(self, CHOOSE i \in bad :
                          \A j \in bad : i <= j).kind,
                      [f \in PerformanceFields |-> count])
             ELSE IF ~SqueezeToList(b).is_list
             THEN Ret("test_model", "TypeError_extend",
                      [f \in PerformanceFields |-> count])
             ELSE TestModelLoop(self, batch_size, first + b,
                                count + AttemptsScores(b))

HsvArgs(up, train, n_clusters) ==
    LET total == IF train THEN up.train ELSE up.test
    IN  [total |-> total, nys |-> HSV_ys_len(total, n_clusters)]

\* Construction with one fixed outcome of the seeded generator: every uniform
\* draw is min_hue, every Gaussian draw 0, the shuffle the identity.
HsvInit ==
    /\ upstream \in [train : 0..MaxUp, test : 0..MaxUp]
    /\ \E train \in BOOLEAN, n_clusters \in 0..MaxClusters,
          noisy_labels \in BOOLEAN, fixed_labels \in BOOLEAN :
         LET a == HsvArgs(upstream, train, n_clusters)
         IN  hsv = HSVFashionMNIST_init(upstream, train, n_clusters, noisy_labels,
                      fixed_labels, 0, HueOne,
                      [i \in 1..a.total |-> 0], [i \in 1..a.total |-> 0],
                      [i \in 1..a.nys |-> i])
    /\ hsv_ret = NoRet

\* Construction with every outcome of the random draws.
HsvLabelsInit ==
    /\ upstream \in [train : 0..MaxUp, test : {0}]
    /\ \E n_clusters \in 0..MaxClusters, noisy_labels \in BOOLEAN,
          min_hue \in 0..HueOne, max_hue \in 0..HueOne :
         /\ min_hue <= max_hue
         /\ LET a == HsvArgs(upstream, TRUE, n_clusters)
            IN  \E u \in [1..a.total -> UniformDraws(min_hue, max_hue)],
                   g \in [1..a.total -> NormalDraws],
                   perm \in Permutations(1..a.nys) :
                    hsv = HSVFashionMNIST_init(upstream, TRUE, n_clusters,
                              noisy_labels, TRUE, min_hue, max_hue, u, g, perm)
    /\ hsv_ret = NoRet

HsvIdle ==
    /\ upstream = [train |-> 0, test |-> 0]
    /\ hsv = HSVFashionMNIST_init(upstream, TRUE, 0, FALSE, TRUE, 0, HueOne,
                                  <<>>, <<>>, <<>>)
    /\ hsv_ret = NoRet

\* AbstractDataset.set_mode on the HSVFashionMNIST object
HsvSetMode ==
    \E m \in DataSplit :
        /\ hsv' = [hsv EXCEPT !.mode = m]
        /\ hsv_ret' = Ret("set_mode", "value", 0)
        /\ UNCHANGED <<upstream, notHsv>>

\* len(dataset)
HsvLen ==
    /\ hsv_ret' = HSVFashionMNIST_len(hsv)
    /\ UNCHANGED <<upstream, hsv, notHsv>>

\* dataset[index]
HsvGetitem ==
    \E index \in 0..MaxUp :
        /\ hsv_ret' = [HSVFashionMNIST_getitem(hsv, index) EXCEPT !.arg = index]
        /\ UNCHANGED <<upstream, hsv, notHsv>>

\* dataset.test_model(generator, batch_size, ...)
HsvTestModel ==
    \E batch_size \in 1..MaxBatch :
        /\ hsv' = [hsv EXCEPT !.mode = "TEST"]
        /\ hsv_ret' = [TestModelLoop(hsv', batch_size, 0, 0)
                          EXCEPT !.arg = batch_size]
        /\ UNCHANGED <<upstream, notHsv>>

NextHsv == HsvSetMode \/ HsvLen \/ HsvGetitem \/ HsvTestModel

\* ---------------------------------------------------- CcGANDatasetWrapper
Abs(x) == IF x < 0 THEN -x ELSE x

\* np.clip(x, lo, hi)
Clip(x, lo, hi) == IF x < lo THEN lo ELSE IF x > hi THEN hi ELSE x

SetMin(S) == CHOOSE x \in S : \A y \in S : x <= y
SetMax(S) == CHOOSE x \in S : \A y \in S : x >= y

\* The wrapped data set: a mode and, per mode, the labels of its samples.
WrappedModes == {"TRAIN", "VAL"}
Wrapped_len(ds) == Len(ds.data[ds.mode])

\* Lines 27-29: self.labels maps every observed label to the list of the
\* indices that carry it, each index stored as a float.
Cc_label_index(ds) ==
    LET ls == ds.data[ds.mode]
    IN  [y \in {ls[i] : i \in 1..Len(ls)} |->
            SelectSeq([i \in 1..Len(ls) |-> i - 1], LAMBDA k : ls[k + 1] = y)]

\* np.asarray(self.labels.keys()): a dictionary view is no sequence, so the
\* result is a 0-dimensional object array whose single item is the view.
np_asarray_keys(labels) == [ndim |-> 0, item |-> DOMAIN labels]

\* np.min / np.max of the array: of a 0-dimensional array, its single item
\* (the view itself); of a 1-dimensional one, its least / greatest element.
np_min(a) == IF a.ndim = 0 THEN a.item ELSE SetMin(a.item)
np_max(a) == IF a.ndim = 0 THEN a.item ELSE SetMax(a.item)

\* The methods the body of class CcGANDatasetWrapper defines: five of the
\* abstract methods are not among them.
CcGANDatasetWrapper_methods == {"__init__", "_getitem", "_len", "set_mode"}

\* CcGANDatasetWrapper(...) or a subclass of it called: the TypeError of the
\* abstract class, or the object CcGANDatasetWrapper.__init__ leaves.
\* AbstractDataset.__init__ is not called, so the object has no mode
\* attribute (has_mode).
CcGANDatasetWrapper_init(extra, ds, type, sigma, hyperparam, clip) ==
    LET labels == Cc_label_index(ds)
        unique_labels == np_asarray_keys(labels)
    IN  Instantiate(CcGANDatasetWrapper_methods, extra,
            [type          |-> type,
             sigma         |-> sigma,
             hyperparam    |-> hyperparam,
             clip          |-> clip,
             labels        |-> labels,
             unique_labels |-> unique_labels,
             min_label     |-> np_min(unique_labels),
             max_label     |-> np_max(unique_labels),
             built_in      |-> ds.mode,
             has_mode      |-> FALSE])

\* The Gaussian draws np.random.normal(scale=sigma) can return, on the grid
CcNormalDraws(sigma) == (-(sigma * MaxSigma))..(sigma * MaxSigma)

\* Lines 36-60 for one outcome of the random draws, once a label was sampled:
\* sample_label the label drawn, eps the Gaussian draw, delta the offset of
\* the uniform draw from the noisy label.
Cc_hard_sample(self, ds, sample_label, eps, delta) ==
    LET noisy0 == sample_label + eps
        noisy_label == IF self.clip
                       THEN Clip(noisy0, self.min_label, self.max_label)
                       ELSE noisy0
        candidate_labels == {l \in self.unique_labels.item :
                                Abs(l - noisy_label) <= self.hyperparam}
        candidate_idxs == UNION {{self.labels[l][k] : k \in 1..Len(self.labels[l])} :
                                    l \in candidate_labels}
        target0 == noisy_label + delta
        target_label == IF self.clip
                        THEN Clip(target0, self.min_label, self.max_label)
                        ELSE target0
    IN  IF self.type = "SOFT" THEN Ret("_getitem", "NotImplementedError", 0)
        \* line 47: np.random.choice of an empty list
        ELSE IF candidate_idxs = {}
        THEN Ret("_getitem", "ValueError_empty",
                 [noisy_label |-> noisy_label, target_label |-> target_label,
                  candidates |-> candidate_idxs])
        \* self.dataset[image_idx]: image_idx is a numpy float, which the list
        \* and tensor indexing of this repository's data sets reject
        ELSE Ret("_getitem", "TypeError_float_index",
                 [noisy_label |-> noisy_label, target_label |-> target_label,
                  candidates |-> candidate_idxs])

\* CcGANDatasetWrapper._getitem: the outcomes the call can have.  Line 35,
\* np.random.choice(self.unique_labels), accepts a 1-dimensional array or an
\* integer: of a 0-dimensional array that holds no integer it raises
\* ValueError("a must be 1-dimensional or an integer").
CcGANDatasetWrapper_getitem(self, ds) ==
    IF self.unique_labels.ndim = 0
    THEN {Ret("_getitem", "ValueError_choice", 0)}
    ELSE IF self.unique_labels.item = {}
    THEN {Ret("_getitem", "ValueError_choice", 0)}
    ELSE {Cc_hard_sample(self, ds, sample_label, eps, delta) :
            sample_label \in self.unique_labels.item,
            eps \in CcNormalDraws(self.sigma),
            delta \in (-self.hyperparam)..self.hyperparam}

\* AbstractDataset.__len__ / __getitem__ on the wrapper: self.mode is read
\* first, and the wrapper has no such attribute.
Cc_guarded(op, self, inner) ==
    IF ~self.has_mode
    THEN Ret(op, "AttributeError", 0)
    ELSE AbstractDataset_guarded(op, "TRAIN", inner)

CcInit ==
    /\ \E m \in WrappedModes, train \in 0..MaxWrapped, val \in 0..MaxWrapped :
         \E lt \in [1..train -> 0..MaxLabel], lv \in [1..val -> 0..MaxLabel] :
            cc_ds = [mode |-> m, data |-> [TRAIN |-> lt, VAL |-> lv]]
    /\ \E extra \in Completions(CcGANDatasetWrapper_methods),
          type \in {"HARD", "SOFT"}, sigma \in 0..MaxSigma,
          hyperparam \in 0..MaxHyper, clip \in BOOLEAN :
         cc = CcGANDatasetWrapper_init(extra, cc_ds, type, sigma, hyperparam, clip)
    /\ cc_ret = NoRet

\* No wrapper object: the class as written was called, or none was.
CcIdle ==
    /\ cc_ds = [mode |-> "TRAIN", data |-> [TRAIN |-> <<>>, VAL |-> <<>>]]
    /\ cc = CcGANDatasetWrapper_init({}, cc_ds, "HARD", 0, 0, TRUE)
    /\ cc_ret = NoRet

\* CcGANDatasetWrapper.set_mode: forwarded to the wrapped data set
CcSetMode ==
    \E m \in WrappedModes :
        /\ IsObject(cc)
        /\ cc_ds' = [cc_ds EXCEPT !.mode = m]
        /\ cc_ret' = Ret("set_mode", "value", 0)
        /\ UNCHANGED <<cc, notCc>>

\* wrapper._getitem(index)
CcGetitemHook ==
    /\ IsObject(cc)
    /\ cc_ret' \in CcGANDatasetWrapper_getitem(cc, cc_ds)
    /\ UNCHANGED <<cc_ds, cc, notCc>>

\* wrapper[index]
CcGetitem ==
    /\ IsObject(cc)
    /\ \E r \in CcGANDatasetWrapper_getitem(cc, cc_ds) :
          cc_ret' = Cc_guarded("__getitem__", cc, r)
    /\ UNCHANGED <<cc_ds, cc, notCc>>

\* len(wrapper)
CcLen ==
    /\ IsObject(cc)
    /\ cc_ret' = Cc_guarded("__len__", cc,
                            Ret("__len__", "value", Wrapped_len(cc_ds)))
    /\ UNCHANGED <<cc_ds, cc, notCc>>

\* wrapper._len()
CcLenHook ==
    /\ IsObject(cc)
    /\ cc_ret' = Ret("_len", "value", Wrapped_len(cc_ds))
    /\ UNCHANGED <<cc_ds, cc, notCc>>

NextCc == CcSetMode \/ CcGetitemHook \/ CcGetitem \/ CcLen \/ CcLenHook

\* ------------------------------------------------------------ main/train.py
\* The run names generate_slug(3) can return
Slugs == {"slug_a", "slug_b"}

d_updates_per_g_update == 5

CeilDiv(a, b) == (a + b - 1) \div b

\* A slip a port could make: the generator stepped on every fifth batch
\* counting from one.
GeneratorDue_from_one(step) == (step + 1) % d_updates_per_g_update = 0

\* Line 142: step % d_updates_per_g_update == 0
GeneratorDue(step) == step % d_updates_per_g_update = 0

\* Lines 108-112: the checkpoint frequency in iterations.  len(dataset) is
\* taken in TRAIN mode (line 75): the number of training samples.
CheckpointFrequency(conf, len_train) ==
    conf.checkpoint_frequency *
        (IF conf.checkpoint_frequency_metric = "ITERATIONS" THEN 1 ELSE len_train)

\* torch.save(obj, f) / torch.load(f) on a file object: both move bytes, which
\* a handle opened in text mode ("w", "r") rejects with a TypeError; a
\* handle opened in binary mode works.
TorchOnHandle(open_mode) == IF open_mode \in {"wb", "rb"} THEN "ok" ELSE "TypeError"

\* Line 158 / line 102: the mode optimizers.json is opened in
SaveOpenMode == "w"
LoadOpenMode == "r"

EmptyDir == [exists |-> FALSE, optimizers |-> "absent", logger |-> "absent",
             ckpts |-> {}]

IdleRun ==
    [pc |-> "idle", error |-> "none", args |-> [epochs |-> 0,
     run_name_given |-> FALSE, resume_from |-> -1, batch_size |-> 1,
     n_workers |-> 0],
     conf |-> [checkpoint_frequency |-> 1, checkpoint_frequency_metric |-> "ITERATIONS"],
     len_train |-> 0, len_val |-> 0, mode |-> "TRAIN", dir |-> "none",
     checkpoint_frequency |-> 0, epoch |-> 0, batches_left |-> 0, step |-> 0,
     batches |-> 0, d_steps |-> 0, g_steps |-> 0, g_at |-> {},
     iter_mode |-> "none", val_left |-> 0, fetches |-> {}, mode_changes |-> {},
     events |-> <<>>, restored |-> [logger |-> "none", optimizers |-> "none",
     model |-> "none"]]

Crash(r, error) == [r EXCEPT !.pc = "crashed", !.error = error]

\* The upstream train split of the HSVFashionMNIST the runs train on (n >= 2:
\* its training split is not empty) and the training config file
Envs ==
    [n : 2..MaxTrainUp, checkpoint_frequency : 0..MaxFreq,
     checkpoint_frequency_metric : {"ITERATIONS", "EPOCHS"}]

TrainInit ==
    /\ env \in Envs
    /\ run = IdleRun
    /\ disk = [d \in Slugs |-> EmptyDir]
    /\ runs = 0

TrainIdle ==
    /\ env = [n |-> 2, checkpoint_frequency |-> 1,
              checkpoint_frequency_metric |-> "ITERATIONS"]
    /\ run = IdleRun
    /\ disk = [d \in Slugs |-> EmptyDir]
    /\ runs = 0

\* Lines 67-99: from the call of train(args) to the construction of the
\* logger.  run_name is bound only when --run_name is absent: with
\* --run_name given, line 70 reads an unbound local.
TrainStart ==
    /\ run.pc \in {"idle", "done", "crashed"}
    /\ runs < MaxRuns
    /\ runs' = runs + 1
    /\ \E epochs \in 1..MaxEpochs, run_name_given \in BOOLEAN,
          resume_from \in -1..MaxResume,
          batch_size \in 1..MaxTrainBatch, n_workers \in {0, MaxWorkers},
          slug \in Slugs :
         LET r == [IdleRun EXCEPT
                     !.args = [epochs |-> epochs, run_name_given |-> run_name_given,
                               resume_from |-> resume_from, batch_size |-> batch_size,
                               n_workers |-> n_workers],
                     !.conf = [checkpoint_frequency |-> env.checkpoint_frequency,
                               checkpoint_frequency_metric |->
                                   env.checkpoint_frequency_metric],
                     !.len_train = Int08(env.n),
                     !.len_val = HSV_len_val(env.n),
                     !.mode = "TRAIN"]
         IN  IF run_name_given
             THEN /\ run' = Crash(r, "NameError_run_name")
                  /\ UNCHANGED disk
             ELSE /\ run' = [r EXCEPT !.pc = "resume", !.dir = slug]
                  /\ disk' = [disk EXCEPT ![slug].exists = TRUE]
    /\ UNCHANGED <<env, notTrain>>

\* Lines 100-120: the restore of a resumed run, then the checkpoint
\* frequency and step = 0.  Logger.restore and model.load_checkpoint read
\* what Logger.save and model.save_checkpoint left in the directory.
TrainResume ==
    /\ run.pc = "resume"
    /\ LET d == disk[run.dir]
           ready == [run EXCEPT !.pc = "epoch", !.step = 0,
                        !.checkpoint_frequency =
                            CheckpointFrequency(run.conf, run.len_train)]
       IN  IF run.args.resume_from = -1
           THEN run' = ready
           ELSE LET r1 == [run EXCEPT !.restored.logger = d.logger]
                IN  IF d.optimizers = "absent"
                    THEN run' = Crash(r1, "FileNotFoundError_optimizers")
                    ELSE IF TorchOnHandle(LoadOpenMode) # "ok"
                    THEN run' = Crash(r1, "TypeError_torch_load")
                    ELSE IF run.args.resume_from \notin d.ckpts
                    THEN run' = Crash([r1 EXCEPT !.restored.optimizers = d.optimizers],
                                      "FileNotFoundError_checkpoint")
                    ELSE run' = [ready EXCEPT
                                    !.restored = [logger |-> d.logger,
                                                  optimizers |-> d.optimizers,
                                                  model |-> run.args.resume_from]]
    /\ UNCHANGED <<env, disk, runs, notTrain>>

\* The mode under which the loader iteration being consumed was started,
\* "none" when none is: an iteration ends when its last batch was taken.
ActiveIteration(r) ==
    IF r.batches_left > 0 \/ r.val_left > 0 THEN r.iter_mode ELSE "none"

\* The mode a batch is fetched in: with n_workers = 0 the main process reads
\* the data set as it is; worker processes read the copy they were given
\* when the iteration started.
FetchMode(r) == IF r.args.n_workers = 0 THEN r.mode ELSE r.iter_mode

\* A slip a port could make: the mode left as the validation pass set it.
ModeKept(mode) == mode

\* Line 124: dataset.set_mode(DataSplit.TRAIN)
ModeForTraining(mode) == "TRAIN"

\* Lines 122-125: the head of an epoch: train mode, then iter(data_loader),
\* which yields ceil(len(dataset) / batch_size) batches.
TrainEpoch ==
    /\ run.pc = "epoch"
    /\ run.epoch < run.args.epochs
    /\ LET m == ModeForTraining(run.mode)
       IN  run' = [run EXCEPT !.pc = "batch", !.mode = m, !.iter_mode = m,
                      !.mode_changes = @ \cup {[to |-> m, phase |-> "train",
                                                active |-> ActiveIteration(run)]},
                      !.batches_left = CeilDiv(run.len_train, run.args.batch_size)]
    /\ UNCHANGED <<env, disk, runs, notTrain>>

\* Lines 125-157: one batch: the discriminator step, the generator step when
\* it is due, the loss tracking, step += 1 and the test of line 157 (a
\* modulo by zero when the checkpoint frequency is 0).
TrainBatch ==
    /\ run.pc = "batch"
    /\ run.batches_left > 0
    /\ LET due == GeneratorDue(run.step)
           r == [run EXCEPT
                    !.batches = @ + 1,
                    !.batches_left = @ - 1,
                    !.fetches = @ \cup {[phase |-> "train", mode |-> FetchMode(run)]},
                    !.d_steps = @ + 1,
                    !.g_steps = IF due THEN @ + 1 ELSE @,
                    !.g_at = IF due THEN @ \cup {run.step} ELSE @,
                    !.step = @ + 1]
       IN  run' = IF r.checkpoint_frequency = 0
                  THEN Crash(r, "ZeroDivisionError")
                  ELSE IF r.step % r.checkpoint_frequency = 0
                  THEN [r EXCEPT !.pc = "checkpoint"]
                  ELSE r
    /\ UNCHANGED <<env, disk, runs, notTrain>>

\* Lines 158-167: the periodic checkpoint.  open(..., "w") creates or empties
\* optimizers.json, then torch.save writes to that handle; the logger state
\* and the model checkpoint follow.
TrainCheckpoint ==
    /\ run.pc = "checkpoint"
    /\ IF TorchOnHandle(SaveOpenMode) # "ok"
       THEN /\ disk' = [disk EXCEPT ![run.dir].optimizers = "empty"]
            /\ run' = Crash(run, "TypeError_torch_save")
       ELSE /\ disk' = [disk EXCEPT ![run.dir].optimizers = run.step,
                                    ![run.dir].logger = run.step,
                                    ![run.dir].ckpts = @ \cup {run.step}]
            /\ run' = [run EXCEPT !.pc = "batch",
                          !.events = @ \o <<<<"optimizers", run.step>>,
                                            <<"logger", run.step>>,
                                            <<"model", run.step>>>>]
    /\ UNCHANGED <<env, runs, notTrain>>

\* Lines 168-175: the training iteration is exhausted; eval mode,
\* dataset.set_mode(DataSplit.VAL), then iter(data_loader) over the
\* validation split.
TrainValidate ==
    /\ run.pc = "batch"
    /\ run.batches_left = 0
    /\ run' = [run EXCEPT !.pc = "val_batch", !.mode = "VAL", !.iter_mode = "VAL",
                  !.mode_changes = @ \cup {[to |-> "VAL", phase |-> "val",
                                            active |-> ActiveIteration(run)]},
                  !.val_left = CeilDiv(run.len_val, run.args.batch_size)]
    /\ UNCHANGED <<env, disk, runs, notTrain>>

\* Lines 175-189: one validation batch and its attempts.
TrainValBatch ==
    /\ run.pc = "val_batch"
    /\ run.val_left > 0
    /\ run' = [run EXCEPT !.val_left = @ - 1,
                  !.fetches = @ \cup {[phase |-> "val", mode |-> FetchMode(run)]}]
    /\ UNCHANGED <<env, disk, runs, notTrain>>

\* Lines 190-197: the validation iteration is exhausted; the images of the
\* last batch and the validation norm are logged and the epoch ends.
TrainValEnd ==
    /\ run.pc = "val_batch"
    /\ run.val_left = 0
    /\ run' = [run EXCEPT !.pc = "epoch", !.epoch = @ + 1]
    /\ UNCHANGED <<env, disk, runs, notTrain>>

\* Lines 199-201: the final model checkpoint, then loss_logger.finish().
TrainFinish ==
    /\ run.pc = "epoch"
    /\ run.epoch = run.args.epochs
    /\ disk' = [disk EXCEPT ![run.dir].ckpts = @ \cup {run.step}]
    /\ run' = [run EXCEPT !.pc = "done",
                  !.events = @ \o <<<<"model", run.step>>, <<"finish", run.step>>>>]
    /\ UNCHANGED <<env, runs, notTrain>>


\* ------------------------------------------- HSVFashionMNIST.performance
\* util/enums.py: ReductionType
ReductionType == {"SUM", "MEAN", "NONE"}

RECURSIVE SeqSum(_)
SeqSum(x) == IF x = <<>> THEN 0 ELSE Head(x) + SeqSum(Tail(x))

\* An image is kept as one pixel <<r, g, b>>.  In the normalised range
\* [-1, 1] of the images every channel is -1 or 1; in the range [0, 1] it is
\* 0 or 1.  An HSV pixel is <<h, s, v>>, the hue counted in sixths of a turn
\* and s and v each 0 or 1.
Black == <<-1, -1, -1>>
Red == <<1, -1, -1>>
Yellow == <<1, 1, -1>>
Blue == <<-1, -1, 1>>

\* AbstractDataset.normalize and denormalize, per channel
normalize(x) == [c \in 1..3 |-> 2 * x[c] - 1]
denormalize(x) == [c \in 1..3 |-> (x[c] + 1) \div 2]

\* skimage.color.rgb2hsv of a pixel with channels 0 or 1: v is the greatest
\* channel, s the spread over v (0 for a grey pixel), and the hue is read
\* from the greatest channel, the blue one taking precedence over the green
\* and the green over the red, modulo one turn (0 for a grey pixel).
rgb2hsv(p) ==
    LET v == IF p[1] = 1 \/ p[2] = 1 \/ p[3] = 1 THEN 1 ELSE 0
        lo == IF p[1] = 0 \/ p[2] = 0 \/ p[3] = 0 THEN 0 ELSE 1
        delta == v - lo
        h == IF delta = 0 THEN 0
             ELSE IF p[3] = v THEN (4 + (p[1] - p[2]) \div delta) % 6
             ELSE IF p[2] = v THEN (2 + (p[3] - p[1]) \div delta) % 6
             ELSE ((p[2] - p[3]) \div delta) % 6
        s == IF delta = 0 THEN 0 ELSE delta \div v
    IN  <<h, s, v>>

\* skimage.color.hsv2rgb of a pixel whose hue is a whole number of sixths
\* (the fractional part f is 0, so q = v and t = p = v(1 - s)).
hsv2rgb(x) ==
    LET v == x[3]
        p == x[3] * (1 - x[2])
        hi == x[1] % 6
    IN  CASE hi = 0 -> <<v, p, p>>
          [] hi = 1 -> <<v, v, p>>
          [] hi = 2 -> <<p, v, p>>
          [] hi = 3 -> <<p, v, v>>
          [] hi = 4 -> <<p, p, v>>
          [] hi = 5 -> <<v, p, v>>

\* HSVFashionMNIST.ground_truth: the real image with its hue replaced by y
HSVFashionMNIST_ground_truth(x, y) ==
    LET x_hsv == rgb2hsv(denormalize(x))
    IN  normalize(hsv2rgb(<<y, x_hsv[2], x_hsv[3]>>))

\* HSVFashionMNIST.rgb_tensor_to_hsv
HSVFashionMNIST_rgb_tensor_to_hsv(t) == rgb2hsv(denormalize(t))

\* An element of a tensor of errors, kept exact: coef * sqrt(root) / 18.
\* The eighteenths carry the sixths of the hue and the mean over three
\* channels; the root carries the two norms.
Scale == 18
Value(coef, root) == [coef |-> coef, root |-> root]

\* Lines 213-229 for one sample of the batch: the seven errors of the fake
\* image against the ground truth, in the order of lines 231-233.
HSVFashionMNIST_errors(ground_truth, fake_image) ==
    LET d == [c \in 1..3 |-> Abs(ground_truth[c] - fake_image[c])]
        hsv_truth == HSVFashionMNIST_rgb_tensor_to_hsv(ground_truth)
        hsv_fake == HSVFashionMNIST_rgb_tensor_to_hsv(fake_image)
        e == [c \in 1..3 |-> Abs(hsv_truth[c] - hsv_fake[c])]
    IN  [hsv_mae_h |-> Value(3 * e[1], 1),
         hsv_mae_s |-> Value(Scale * e[2], 1),
         hsv_mae_v |-> Value(Scale * e[3], 1),
         hsv_l1    |-> Value(e[1] + 6 * e[2] + 6 * e[3], 1),
         hsv_l2    |-> Value(3, e[1] * e[1] + 36 * e[2] * e[2] + 36 * e[3] * e[3]),
         rgb_l1    |-> Value(6 * (d[1] + d[2] + d[3]), 1),
         rgb_l2    |-> Value(Scale, d[1] * d[1] + d[2] * d[2] + d[3] * d[3])]

\* torch.sum(x) and torch.mean(x) of a 1-dimensional tensor: a scalar, kept
\* exact as num / den, num the sum of the elements gathered by root (root
\* |-> sum of the coefficients).
torch_sum(x) ==
    [num |-> [r \in {x[i].root : i \in 1..Len(x)} |->
                SeqSum([i \in 1..Len(x) |->
                           IF x[i].root = r THEN x[i].coef ELSE 0])],
     den |-> 1]
torch_mean(x) == [torch_sum(x) EXCEPT !.den = Len(x)]

\* A slip the code could make: the functions of the MEAN and SUM branches
\* exchanged.
Reduce_exchanged(reduction, x) ==
    IF reduction = "MEAN" THEN torch_sum(x)
    ELSE IF reduction = "SUM" THEN torch_mean(x)
    ELSE x

\* Lines 234-239: the function chosen by the reduction
Reduce(reduction, x) ==
    IF reduction = "MEAN" THEN torch_mean(x)
    ELSE IF reduction = "SUM" THEN torch_sum(x)
    ELSE x

\* DataclassExtensions.map(f): a record of the same fields, f applied to
\* each; f is given as a function on the values of the fields.
DataclassExtensions_map(record, f) ==
    [field \in DOMAIN record |-> f[record[field]]]

\* HSVFashionMNIST.performance.  real_labels is not read.
HSVFashionMNIST_performance(real_images, fake_images, fake_labels, reduction) ==
    LET batch == 1..Len(fake_images)
        ground_truths == [i \in batch |->
                             HSVFashionMNIST_ground_truth(real_images[i],
                                                          fake_labels[i])]
        errors == [i \in batch |->
                      HSVFashionMNIST_errors(ground_truths[i], fake_images[i])]
        return_values == [f \in PerformanceFields |->
                             [i \in batch |-> errors[i][f]]]
        reduce == [x \in {return_values[f] : f \in PerformanceFields} |->
                      Reduce(reduction, x)]
    IN  DataclassExtensions_map(return_values, reduce)

\* The batches scored.  The real images are black or of full colour, as
\* shift_hue (lines 155-176) leaves the images of this data set, and the
\* ground truth takes only s and v from them; the fake images are of three
\* colours; the target hues are whole sixths of a turn.
PerfRealPixels == {Black, Red}
PerfFakePixels == {Red, Yellow, Blue}
PerfBatches(b) ==
    [real_images : [1..b -> PerfRealPixels],
     fake_images : [1..b -> PerfFakePixels],
     fake_labels : [1..b -> 0..MaxTarget]]

\* No call of performance() has returned
PerfNoRets == [reduction \in ReductionType |-> NoRet]

PerfInit ==
    /\ perf_in \in UNION {PerfBatches(b) : b \in 1..MaxPerfBatch}
    /\ perf_ret = PerfNoRets

PerfIdle ==
    /\ perf_in = [real_images |-> <<>>, fake_images |-> <<>>, fake_labels |-> <<>>]
    /\ perf_ret = PerfNoRets

\* One call of performance() on the batch, with one of the reductions
Performance ==
    /\ \E reduction \in ReductionType :
         perf_ret' = [perf_ret EXCEPT ![reduction] =
                         [op |-> "performance", kind |-> "value",
                          value |-> HSVFashionMNIST_performance(
                                        perf_in.real_images, perf_in.fake_images,
                                        perf_in.fake_labels, reduction),
                          arg |-> reduction]]
    /\ UNCHANGED <<perf_in, notPerf>>

NextPerf == Performance

\* ------------------------------- util/pytorch_utils.py: the pairwise shuffle
\* random.seed(0) followed by random.shuffle of a list of n items: the item
\* that ends at each position, positions counted from 1.
SeededShuffle(n) ==
    CASE n = 0 -> <<>>
      [] n = 1 -> <<1>>
      [] n = 2 -> <<1, 2>>
      [] n = 3 -> <<1, 3, 2>>
      [] n = 4 -> <<3, 1, 2, 4>>
      [] OTHER -> <<3, 2, 1, 5, 4>>

\* Line 130: zip(args), one 1-tuple per argument
ZipOne(args) == [k \in 1..Len(args) |-> <<args[k]>>]

\* Lines 126-133.  temp holds one 1-tuple per argument; the shuffle reorders
\* these tuples; zip(*temp) has a single item, made of the first (only)
\* component of every tuple, and none at all when there is no argument.
pairwise_deterministic_shuffle(args) ==
    LET temp == ZipOne(args)
        order == SeededShuffle(Len(temp))
        shuffled == [k \in 1..Len(temp) |-> temp[order[k]]]
    IN  IF Len(shuffled) = 0
        THEN Ret("pairwise_deterministic_shuffle", "StopIteration", <<>>)
        ELSE Ret("pairwise_deterministic_shuffle", "value",
                 [k \in 1..Len(shuffled) |-> shuffled[k][1]])

ShufInit ==
    /\ shuf_in \in UNION {[1..n -> [1..len -> 0..MaxElem]] :
                            n \in 0..MaxSeqs, len \in 0..MaxSeqLen}
    /\ shuf_ret = NoRet

ShufIdle ==
    /\ shuf_in = <<>>
    /\ shuf_ret = NoRet

Shuffle ==
    /\ shuf_ret' = pairwise_deterministic_shuffle(shuf_in)
    /\ UNCHANGED <<shuf_in, notShuf>>

NextShuf == Shuffle

\* ------------------------------------------------------------- main/eval.py
\* The --checkpoint_dir both entry points are given
CheckpointRoot == <<"checkpoints">>

\* os.path.join of a directory and a name
PathJoin(dir, name) == dir \o <<name>>

\* The model checkpoints a directory holds.  train() keeps the directory
\* path.join(args.checkpoint_dir, run_name) of a run under its run name
\* (line 97); it writes nowhere else.
DirCheckpoints(dir) ==
    IF \E name \in Slugs : dir = PathJoin(CheckpointRoot, name)
    THEN disk[dir[Len(dir)]].ckpts
    ELSE {}

\* eval(args), lines 31-53: checkpoint_dir is the joined directory (line 32)
\* and is used for hyperparams.yaml; model.load_checkpoint is given
\* args.checkpoint_dir (line 51) and reads the checkpoint of step
\* resume_from there.
Eval_load(checkpoint_root, run_name, resume_from) ==
    LET checkpoint_dir == PathJoin(checkpoint_root, run_name)
        load_dir == checkpoint_root
        out == [checkpoint_dir |-> checkpoint_dir, load_dir |-> load_dir,
                run_name |-> run_name, step |-> resume_from]
    IN  IF resume_from \in DirCheckpoints(load_dir)
        THEN Ret("eval", "value", out)
        ELSE Ret("eval", "FileNotFoundError_checkpoint", out)

EvalIdle == eval_ret = NoRet

\* An evaluation run on the checkpoint root of the training runs, once a
\* training run has completed.
Eval ==
    /\ run.pc = "done"
    /\ runs < MaxRuns
    /\ \E run_name \in Slugs, resume_from \in 0..MaxResume :
          eval_ret' = Eval_load(CheckpointRoot, run_name, resume_from)
    /\ runs' = runs + 1
    /\ UNCHANGED <<env, run, disk, notTrainEval>>

\* The entry points run on a checkpoint root: training runs and evaluations
NextTrain ==
    \/ TrainStart \/ TrainResume \/ TrainEpoch \/ TrainBatch
    \/ TrainCheckpoint \/ TrainValidate \/ TrainValBatch \/ TrainValEnd
    \/ TrainFinish \/ Eval

\* --------------------------------------------------------- specifications
InitDof == DofInit /\ HsvIdle /\ CcIdle /\ TrainIdle /\ PerfIdle /\ ShufIdle /\ EvalIdle
SpecDof == InitDof /\ [][NextDof]_vars

InitHsv == HsvInit /\ DofIdle /\ CcIdle /\ TrainIdle /\ PerfIdle /\ ShufIdle /\ EvalIdle
SpecHsv == InitHsv /\ [][NextHsv]_vars

InitHsvLabels == HsvLabelsInit /\ DofIdle /\ CcIdle /\ TrainIdle /\ PerfIdle /\ ShufIdle /\ EvalIdle
SpecHsvLabels == InitHsvLabels /\ [][NextHsv]_vars

InitCc == CcInit /\ DofIdle /\ HsvIdle /\ TrainIdle /\ PerfIdle /\ ShufIdle /\ EvalIdle
SpecCc == InitCc /\ [][NextCc]_vars

InitTrain == TrainInit /\ DofIdle /\ HsvIdle /\ CcIdle /\ PerfIdle /\ ShufIdle /\ EvalIdle
SpecTrain == InitTrain /\ [][NextTrain]_vars

InitPerf == PerfInit /\ DofIdle /\ HsvIdle /\ CcIdle /\ TrainIdle /\ ShufIdle /\ EvalIdle
SpecPerf == InitPerf /\ [][NextPerf]_vars

InitShuf == ShufInit /\ DofIdle /\ HsvIdle /\ CcIdle /\ TrainIdle /\ PerfIdle /\ EvalIdle
SpecShuf == InitShuf /\ [][NextShuf]_vars

\* ------------------------------------------------------------------ claims
DofSum == dof.len_train + dof.len_val + dof.len_test + dof.len_holdout

\* C6 (as stated): of every DepthOfField object, the four split sizes are
\* floor(0.55N), floor(0.15N), floor(0.15N), ceil(0.15N) and their sum
\* differs from N by at most 1.
C6_SumWithinOne ==
    IsObject(dof) =>
        /\ dof.len_train = Floor100(55 * dof.num_images)
        /\ dof.len_val = Floor100(15 * dof.num_images)
        /\ dof.len_test = Floor100(15 * dof.num_images)
        /\ dof.len_holdout = Ceil100(15 * dof.num_images)
        /\ DofSum - dof.num_images \in -1..1

\* C6 (amended): of every DepthOfField object, the four split sizes are
\* floor(0.55N), floor(0.15N), floor(0.15N), ceil(0.15N); their sum never
\* exceeds N and falls short of it by at most 2.
C6_SumWithinTwo ==
    IsObject(dof) =>
        /\ dof.len_train = Floor100(55 * dof.num_images)
        /\ dof.len_val = Floor100(15 * dof.num_images)
        /\ dof.len_test = Floor100(15 * dof.num_images)
        /\ dof.len_holdout = Ceil100(15 * dof.num_images)
        /\ dof.num_images - DofSum \in 0..2

\* A corpus whose holdout split is rounded up and whose splits miss two images.
C6_Witness ==
    /\ IsObject(dof)
    /\ dof.num_images = 5
    /\ dof.len_holdout = 1 /\ dof.len_val = 0
    /\ DofSum = 3

\* C5: len() and indexing on a data set on which set_mode was never called
\* raise the 'Please call set_mode' error.
C5_UnsetModeIsError ==
    (IsObject(dof) /\ ~dof_mode_set /\ dof_ret.op \in {"__len__", "__getitem__"})
        => dof_ret.kind = "ValueError_set_mode"

\* The upstream positions a mode's indices 0 .. len-1 are mapped to
HsvPositions(m) ==
    LET self == [hsv EXCEPT !.mode = m]
        n == HSVFashionMNIST_len(self).value
    IN  {HSV_index(self, i) : i \in 0..(n - 1)}

\* C7: built on an upstream train split of N samples, len_train = floor(0.8N)
\* and len_train + len_val = N; TRAIN index i reads sample i and VAL index i
\* reads sample len_train + i; the two ranges are disjoint and cover [0, N).
C7_TrainValPartition ==
    hsv.train =>
        /\ hsv.total_samples = upstream.train
        /\ hsv.len_train = (8 * upstream.train) \div 10
        /\ hsv.len_train + hsv.len_val = upstream.train
        /\ HsvPositions("TRAIN") \cap HsvPositions("VAL") = {}
        /\ HsvPositions("TRAIN") \cup HsvPositions("VAL") = 0..(upstream.train - 1)
        /\ (hsv_ret.op = "__getitem__" /\ hsv.mode = "TRAIN"
                /\ hsv_ret.arg < hsv.len_train)
              => /\ hsv_ret.kind \notin {"IndexError_data", "AttributeError"}
                 /\ hsv_ret.value = hsv_ret.arg
        /\ (hsv_ret.op = "__getitem__" /\ hsv.mode = "VAL"
                /\ hsv_ret.arg < hsv.len_val)
              => /\ hsv_ret.kind \notin {"IndexError_data", "AttributeError"}
                 /\ hsv_ret.value = hsv.len_train + hsv_ret.arg

\* A validation sample was fetched from behind a non-empty training range.
C7_Witness ==
    /\ hsv.train /\ hsv.mode = "VAL" /\ hsv.len_train = 2 /\ hsv.len_val = 1
    /\ hsv_ret.op = "__getitem__" /\ hsv_ret.kind = "value"
    /\ hsv_ret.arg = 0 /\ hsv_ret.value = 2

\* C8: in TEST mode, for both values of the train flag, the length is the
\* size of the upstream test split and index i reads test-split sample i.
C8_TestModeUsesTestSplit ==
    hsv.mode = "TEST" =>
        /\ hsv_ret.op = "__len__" =>
              hsv_ret.kind = "value" /\ hsv_ret.value = upstream.test
        /\ (hsv_ret.op = "__getitem__" /\ hsv_ret.kind = "value") =>
              hsv.split = "test" /\ hsv_ret.value = hsv_ret.arg

\* C9: construction gives every sample index i in [0, total_samples) a hue
\* hues[i] and a label ys[i], both in [min_hue, max_hue].
C9_EveryIndexLabelledInDomain ==
    \A i \in 1..hsv.total_samples :
        /\ i <= Len(hsv.ys) /\ i <= Len(hsv.hues)
        /\ hsv.ys[i] \in hsv.min_hue..hsv.max_hue
        /\ hsv.hues[i] \in hsv.min_hue..hsv.max_hue

\* C10: test_model leaves the data set in TEST mode and accumulates exactly
\* T x 100 scores in each of the seven fields, T the size of the test set,
\* for every batch size (every sample of the test set being retrievable).
C10_TestModelCountsAllScores ==
    (hsv_ret.op = "test_model" /\ hsv.fixed_labels
        /\ Len(hsv.ys) = hsv.total_samples) =>
        /\ hsv.mode = "TEST"
        /\ hsv_ret.kind = "value"
        /\ \A f \in PerformanceFields :
              hsv_ret.value[f] = hsv.total_samples * 100

\* C2: in train(), every batch takes exactly one discriminator step, the
\* generator is stepped on exactly the batches that begin with step a
\* multiple of 5, step counts the batches of the whole run across epochs,
\* and so after k batches there have been k discriminator updates and
\* ceil(k / 5) generator updates.
C2_UpdateSchedule ==
    /\ run.d_steps = run.batches
    /\ run.step = run.batches
    /\ run.g_at = {s \in 0..(run.batches - 1) : s % 5 = 0}
    /\ run.g_steps = Cardinality(run.g_at)
    /\ run.g_steps = (run.batches + 4) \div 5

\* The sixth batch of a run, in its second epoch, has brought the second
\* generator update.
C2_Witness ==
    /\ run.batches = 6
    /\ run.epoch = 1
    /\ run.d_steps = 6
    /\ run.g_steps = 2
    /\ run.g_at = {0, 5}

\* The persistence events a run owes after its first step batches: the
\* optimizer state, the logger state and the model checkpoint, in that
\* order, at every positive multiple of the checkpoint frequency.
RECURSIVE PeriodicEvents(_, _)
PeriodicEvents(freq, step) ==
    IF step = 0 THEN <<>>
    ELSE PeriodicEvents(freq, step - 1) \o
         (IF step % freq = 0
          THEN <<<<"optimizers", step>>, <<"logger", step>>, <<"model", step>>>>
          ELSE <<>>)

\* C3: with a positive checkpoint frequency, a run persists optimizer state,
\* logger state and a model checkpoint, in that order, exactly when step is
\* a positive multiple of the frequency, and a run that ends saves one more
\* model checkpoint keyed by the total number of batches before the logger
\* is finished.
C3_CheckpointsAtMultiples ==
    (run.pc \in {"epoch", "batch", "done", "crashed"} /\ run.checkpoint_frequency > 0)
        => /\ run.pc # "done"
              => run.events = PeriodicEvents(run.checkpoint_frequency, run.step)
           /\ run.pc = "done"
              => run.events = PeriodicEvents(run.checkpoint_frequency, run.step)
                              \o <<<<"model", run.step>>, <<"finish", run.step>>>>
           /\ \A s \in 1..run.step :
                 s % run.checkpoint_frequency = 0 => s \in disk[run.dir].ckpts

\* C4: a run resumed in the directory of an earlier run, at a step s for
\* which that directory holds a model checkpoint, gets past the restore with
\* the model, the optimizer state and the logger state of that same step s.
C4_ResumeRestoresSameStep ==
    (/\ run.args.resume_from # -1
     /\ run.dir \in Slugs
     /\ run.args.resume_from \in disk[run.dir].ckpts
     /\ run.pc # "resume")
        => /\ run.pc # "crashed"
           /\ run.restored = [logger |-> run.args.resume_from,
                              optimizers |-> run.args.resume_from,
                              model |-> run.args.resume_from]

\* The sum of two sums gathered by root, and the sum of the elements of a
\* tensor taken one element after the other
AddByRoot(a, b) ==
    [r \in DOMAIN a \cup DOMAIN b |->
        (IF r \in DOMAIN a THEN a[r] ELSE 0) + (IF r \in DOMAIN b THEN b[r] ELSE 0)]
RECURSIVE BatchTotal(_)
BatchTotal(x) ==
    IF x = <<>> THEN <<>>
    ELSE AddByRoot([r \in {Head(x).root} |-> Head(x).coef], BatchTotal(Tail(x)))

\* C11: for the same batch, every field a call of performance() returned
\* with reduction SUM is the sum over the batch of the per-sample values a
\* call returned with reduction NONE, one value per sample, and every field
\* a call returned with reduction MEAN is that sum divided by the batch size.
C11_ReductionConsistency ==
    LET none == perf_ret["NONE"]
        sum == perf_ret["SUM"]
        mean == perf_ret["MEAN"]
        batch_size == Len(perf_in.fake_images)
    IN  /\ none.op = "performance"
              => \A f \in PerformanceFields : Len(none.value[f]) = batch_size
        /\ (none.op = "performance" /\ sum.op = "performance")
              => \A f \in PerformanceFields :
                    sum.value[f] = [num |-> BatchTotal(none.value[f]), den |-> 1]
        /\ (none.op = "performance" /\ mean.op = "performance")
              => \A f \in PerformanceFields :
                    mean.value[f] = [num |-> BatchTotal(none.value[f]),
                                     den |-> batch_size]

\* All three reductions were returned for a batch of two red images, hues
\* 0 and 1 asked for, fakes blue and red: the hue errors are 4/6 and 1/6,
\* the saturation errors 0, the RGB norms sqrt(8) and sqrt(4).
C11_Witness ==
    /\ \A reduction \in ReductionType : perf_ret[reduction].op = "performance"
    /\ perf_in.real_images = <<Red, Red>>
    /\ perf_in.fake_labels = <<0, 1>>
    /\ perf_in.fake_images = <<Blue, Red>>
    /\ perf_ret["NONE"].value["hsv_mae_h"] = <<Value(12, 1), Value(3, 1)>>
    /\ perf_ret["NONE"].value["hsv_mae_s"] = <<Value(0, 1), Value(0, 1)>>
    /\ perf_ret["NONE"].value["rgb_l2"] = <<Value(18, 8), Value(18, 4)>>
    /\ perf_ret["SUM"].value["hsv_mae_h"] = [num |-> [r \in {1} |-> 15], den |-> 1]
    /\ perf_ret["MEAN"].value["rgb_l2"] = [num |-> [r \in {4, 8} |-> 18], den |-> 2]

\* The permutations of the positions 1..n
Perms(n) == {p \in [1..n -> 1..n] : \A i, j \in 1..n : p[i] = p[j] => i = j}

\* C12: pairwise_deterministic_shuffle returns one sequence per input, the
\* k-th result is a permutation of the k-th input, and one permutation of
\* the positions is applied to every input.
C12_LockStepShuffle ==
    (shuf_ret.op = "pairwise_deterministic_shuffle" /\ Len(shuf_in) >= 1)
        => /\ shuf_ret.kind = "value"
           /\ Len(shuf_ret.value) = Len(shuf_in)
           /\ \E p \in Perms(Len(shuf_in[1])) :
                 \A k \in 1..Len(shuf_in) :
                    /\ Len(shuf_ret.value[k]) = Len(shuf_in[k])
                    /\ \A i \in 1..Len(shuf_in[k]) :
                          shuf_ret.value[k][i] = shuf_in[k][p[i]]

\* C14: in every epoch of train(), every training batch is fetched with the
\* data set in TRAIN mode and every validation batch with it in VAL mode,
\* the mode is set to TRAIN only at the start of an epoch and to VAL only
\* at the start of validation, and no set_mode call happens while a loader
\* iteration is still being consumed.
C14_ModeChangesAtPhaseBoundaries ==
    /\ \A f \in run.fetches :
          f.mode = (IF f.phase = "train" THEN "TRAIN" ELSE "VAL")
    /\ \A c \in run.mode_changes :
          /\ c.active = "none"
          /\ c.to = (IF c.phase = "train" THEN "TRAIN" ELSE "VAL")
    /\ run.pc \in {"batch", "checkpoint"} => run.mode = "TRAIN"
    /\ run.pc = "val_batch" => run.mode = "VAL"

\* In the second epoch of a run, after a validation pass, a training batch
\* was fetched by worker processes.
C14_Witness ==
    /\ run.epoch = 1
    /\ run.pc = "batch"
    /\ run.args.n_workers = 1
    /\ run.batches > CeilDiv(run.len_train, run.args.batch_size)
    /\ [to |-> "VAL", phase |-> "val", active |-> "none"] \in run.mode_changes
    /\ [phase |-> "val", mode |-> "VAL"] \in run.fetches

\* C15: a train() call uses the checkpoint directory <root>/<run_name>, the
\* run name being --run_name when given and a generated slug otherwise, and
\* in both cases gets to the training loop with that directory created.
C15_CheckpointDirectory ==
    run.pc # "idle"
        => /\ run.error # "NameError_run_name"
           /\ run.dir \in Slugs
           /\ disk[run.dir].exists

\* C16: when the directory <root>/<run_name> of a training run holds the
\* model checkpoint of step resume_from, eval() loads that checkpoint, from
\* that directory.
C16_EvalLoadsWhereTrainSaved ==
    (/\ eval_ret.op = "eval"
     /\ eval_ret.value.step \in disk[eval_ret.value.run_name].ckpts)
        => /\ eval_ret.kind = "value"
           /\ eval_ret.value.load_dir
                 = PathJoin(CheckpointRoot, eval_ret.value.run_name)

\* The corpus positions the indices 0 .. length-1 of a mode are mapped to
DofPositions(m) ==
    LET self == [dof EXCEPT !.mode = m]
    IN  {DepthOfField_get_idx_offset(self) + i :
            i \in 0..(DepthOfField_len(self) - 1)}

\* C17: of every DepthOfField object, for every corpus size N, every mode m
\* and every index i below the length of m, the position offset(m) + i lies in [0, N), the positions of
\* two different modes are disjoint, and an item fetched at such an index is
\* read from that position.
C17_SplitRangesDisjointInCorpus ==
    IsObject(dof) =>
        /\ \A m \in DataSplit : DofPositions(m) \subseteq 0..(dof.num_images - 1)
        /\ \A m1, m2 \in DataSplit :
              m1 # m2 => DofPositions(m1) \cap DofPositions(m2) = {}
        /\ (dof_ret.op = "__getitem__" /\ dof_ret.arg < DepthOfField_len(dof))
              => /\ dof_ret.kind = "value"
                 /\ dof_ret.value = DepthOfField_get_idx_offset(dof) + dof_ret.arg
                 /\ dof_ret.value \in DofPositions(dof.mode)

\* The last holdout item of a corpus of 7 images was read from the last
\* position of the corpus.
C17_Witness ==
    /\ IsObject(dof)
    /\ dof.num_images = 7 /\ dof.mode = "HOLDOUT" /\ dof.len_holdout = 2
    /\ dof_ret.op = "__getitem__" /\ dof_ret.kind = "value"
    /\ dof_ret.arg = 1 /\ dof_ret.value = 6

====
